---- MODULE Spec2Model ----
(***************************************************************************)
(* WhatsAppAnalyzer (src/main.py): parse_chat and the sequential scans     *)
(* over the parsed message table (self.df).                                *)
(*                                                                         *)
(* A physical line of the chat export is a sequence of one-character       *)
(* strings.  Timestamps are whole minutes (the log has minute resolution): *)
(* a datetime is ordinal-day * 1440 + hour * 60 + minute, so that          *)
(* total_seconds() / 60 of a difference is the integer difference.         *)
(***************************************************************************)
EXTENDS Integers, Sequences, FiniteSets, TLC

\* ------------------------------------------------------------------ bounds
\* longest file drawn from the whole line table, in any order
MaxAnyLen == 2
\* longest file of raw lines (malformed lines among them)
MaxRawLen == 3
\* longest file in timestamp order
MaxSortedLen == 4
\* longest file of same-minute messages by two authors
MaxMonoLen == 6
\* longest file of one message per line on the streak dates
MaxStreakLen == 6
\* longest file in timestamp order around the one-hour boundary
MaxHourLen == 3
\* longest file in timestamp order around the four-hour boundary
MaxStarterLen == 3
\* longest file in timestamp order around the two-minute boundary
MaxChainLen == 6
\* longest file of same-minute messages with at most one repeated speaker
MaxReplyLen == 12

\* ------------------------------------------------------------ characters
Digits == <<"0", "1", "2", "3", "4", "5", "6", "7", "8", "9">>

IsDigit(c) == \E k \in 1..10 : Digits[k] = c

DigitVal(c) == (CHOOSE k \in 1..10 : Digits[k] = c) - 1

\* str.strip() and \s : the whitespace characters of the line alphabet
IsSpace(c) == c \in {" ", "\t", "\n"}

\* int() of a run of digit characters
RECURSIVE ToInt(_)
ToInt(s) ==
    IF s = <<>> THEN 0
    ELSE 10 * ToInt(SubSeq(s, 1, Len(s) - 1)) + DigitVal(s[Len(s)])

\* two-digit and four-digit rendering used to write the line table
D2(n) == <<Digits[(n \div 10) + 1], Digits[(n % 10) + 1]>>

D4(n) == D2(n \div 100) \o D2(n % 100)

\* str.strip()
RECURSIVE LStrip(_)
LStrip(s) ==
    IF s # <<>> /\ IsSpace(s[1]) THEN LStrip(Tail(s)) ELSE s

RECURSIVE RStrip(_)
RStrip(s) ==
    IF s # <<>> /\ IsSpace(s[Len(s)]) THEN RStrip(SubSeq(s, 1, Len(s) - 1)) ELSE s

Strip(s) == LStrip(RStrip(s))

\* len(x.split()) : number of whitespace-delimited tokens
RECURSIVE SplitCount(_)
SplitCount(s) ==
    IF s = <<>> THEN 0
    ELSE IF IsSpace(s[1]) THEN SplitCount(Tail(s))
    ELSE IF Len(s) = 1 \/ IsSpace(s[2]) THEN 1 + SplitCount(Tail(s))
    ELSE SplitCount(Tail(s))

\* ------------------------------------------------------- the line grammar
\* pattern = (\d{2}/\d{2}/\d{4}),\s(\d{2}:\d{2})\s-\s([^:]+):\s(.+)
\* re.match anchors at the start of the stripped line.  The header is 20
\* characters; the author group runs to the first colon after it.
HeaderLen == 20

AllDigits(s, a, b) == \A k \in a..b : IsDigit(s[k])

HeaderMatches(s) ==
    /\ Len(s) >= HeaderLen
    /\ AllDigits(s, 1, 2) /\ s[3] = "/"
    /\ AllDigits(s, 4, 5) /\ s[6] = "/"
    /\ AllDigits(s, 7, 10) /\ s[11] = ","
    /\ IsSpace(s[12])
    /\ AllDigits(s, 13, 14) /\ s[15] = ":"
    /\ AllDigits(s, 16, 17)
    /\ IsSpace(s[18]) /\ s[19] = "-" /\ IsSpace(s[20])

\* position of the first ':' after the header, 0 when there is none
FirstColon(s) ==
    LET cs == {k \in (HeaderLen + 1)..Len(s) : s[k] = ":"}
    IN  IF cs = {} THEN 0 ELSE CHOOSE k \in cs : \A j \in cs : k <= j

\* re.match(pattern, line.strip()) succeeds
Matches(line) ==
    LET s == Strip(line)
        c == FirstColon(s)
    IN  /\ HeaderMatches(s)
        /\ c > HeaderLen + 1
        /\ Len(s) >= c + 2
        /\ IsSpace(s[c + 1])

\* match.groups() with author.strip() and message.strip()
Groups(line) ==
    LET s == Strip(line)
        c == FirstColon(s)
    IN  [date    |-> SubSeq(s, 1, 10),
         time    |-> SubSeq(s, 13, 17),
         author  |-> Strip(SubSeq(s, HeaderLen + 1, c - 1)),
         message |-> Strip(SubSeq(s, c + 2, Len(s)))]

\* ------------------------------------------------------------ to_datetime
IsLeap(y) == y % 4 = 0 /\ (y % 100 # 0 \/ y % 400 = 0)

DaysInMonth(y, m) ==
    IF m = 2 THEN (IF IsLeap(y) THEN 29 ELSE 28)
    ELSE IF m \in {4, 6, 9, 11} THEN 30 ELSE 31

RECURSIVE DaysBeforeMonth(_, _)
DaysBeforeMonth(y, m) ==
    IF m <= 1 THEN 0 ELSE DaysBeforeMonth(y, m - 1) + DaysInMonth(y, m - 1)

DaysBeforeYear(y) ==
    (y - 1) * 365 + ((y - 1) \div 4) - ((y - 1) \div 100) + ((y - 1) \div 400)

\* proleptic Gregorian ordinal of a calendar date
Ordinal(y, m, d) == DaysBeforeYear(y) + DaysBeforeMonth(y, m) + d

DayField(row) == ToInt(SubSeq(row.date, 1, 2))
MonthField(row) == ToInt(SubSeq(row.date, 4, 5))
YearField(row) == ToInt(SubSeq(row.date, 7, 10))
HourField(row) == ToInt(SubSeq(row.time, 1, 2))
MinuteField(row) == ToInt(SubSeq(row.time, 4, 5))

\* format='%d/%m/%Y %H:%M' accepts the row: a real calendar date and time
ValidDatetime(row) ==
    /\ YearField(row) >= 1
    /\ MonthField(row) \in 1..12
    /\ DayField(row) \in 1..DaysInMonth(YearField(row), MonthField(row))
    /\ HourField(row) \in 0..23
    /\ MinuteField(row) \in 0..59

DayNames == <<"Monday", "Tuesday", "Wednesday", "Thursday", "Friday", "Saturday", "Sunday">>

\* one row of self.df with the columns parse_chat derives
MakeRow(row) ==
    LET ord == Ordinal(YearField(row), MonthField(row), DayField(row))
    IN  [date        |-> row.date,
         time        |-> row.time,
         author      |-> row.author,
         message     |-> row.message,
         datetime    |-> ord * 1440 + HourField(row) * 60 + MinuteField(row),
         date_only   |-> ord,
         hour        |-> HourField(row),
         day_of_week |-> DayNames[((ord + 6) % 7) + 1],
         month       |-> <<YearField(row), MonthField(row)>>,
         word_count  |-> SplitCount(row.message)]

\* ---------------------------------------------------------- the chat file
AuthorA == <<"A">>
AuthorB == <<"B">>

MkLine(d, m, y, hh, mm, author, msg) ==
    D2(d) \o <<"/">> \o D2(m) \o <<"/">> \o D4(y) \o <<",", " ">>
    \o D2(hh) \o <<":">> \o D2(mm) \o <<" ", "-", " ">>
    \o author \o <<":", " ">> \o msg \o <<"\n">>

\* minutes after 10:00 of the timed lines
TimedOffsets == <<0, 1, 5, 10, 15, 60, 61>>

TimedLine(k) ==
    LET t == TimedOffsets[(k + 1) \div 2]
    IN  MkLine(27, 2, 2024, 10 + (t \div 60), t % 60,
               IF k % 2 = 1 THEN AuthorA ELSE AuthorB, <<"h", "i">>)

\* The lines a file is drawn from.  1..14: the timed lines, A and B at each
\* offset.  15..17: the rest of the interaction example (0,A)(3,B)(12,B)(14,A).
\* 18..21: one message on each further streak date.  22..28: lines that are
\* not messages, or carry an impossible date or time, or need stripping.
\* 29..32: A and B at 14:00 and at 18:01.  33: B on the second streak date.
LineTable ==
    [k \in 1..14 |-> TimedLine(k)] \o
    << MkLine(27, 2, 2024, 10, 3, AuthorB, <<"h", "i">>),
       MkLine(27, 2, 2024, 10, 12, AuthorB, <<"h", "i">>),
       MkLine(27, 2, 2024, 10, 14, AuthorA, <<"h", "i">>),
       MkLine(28, 2, 2024, 10, 0, AuthorA, <<"h", "i">>),
       MkLine(29, 2, 2024, 10, 0, AuthorA, <<"h", "i">>),
       MkLine(3, 3, 2024, 10, 0, AuthorA, <<"h", "i">>),
       MkLine(4, 3, 2024, 10, 0, AuthorA, <<"h", "i">>),
       <<"h", "e", "l", "l", "o", "\n">>,
       D2(27) \o <<"/">> \o D2(2) \o <<"/">> \o D4(2024) \o <<",", " ">> \o D2(10)
           \o <<":">> \o D2(0) \o <<" ", "-", " ", "A", " ", "l", "e", "f", "t", "\n">>,
       MkLine(31, 2, 2024, 10, 0, AuthorA, <<"h", "i">>),
       MkLine(15, 13, 2024, 10, 0, AuthorA, <<"h", "i">>),
       MkLine(27, 2, 2024, 25, 0, AuthorA, <<"h", "i">>),
       <<"\n">>,
       <<" ">> \o MkLine(27, 2, 2024, 10, 0, <<" ", "B", " ">>, <<"a", " ", " ", "b", " ">>),
       MkLine(27, 2, 2024, 14, 0, AuthorA, <<"h", "i">>),
       MkLine(27, 2, 2024, 14, 0, AuthorB, <<"h", "i">>),
       MkLine(27, 2, 2024, 18, 1, AuthorA, <<"h", "i">>),
       MkLine(27, 2, 2024, 18, 1, AuthorB, <<"h", "i">>),
       MkLine(28, 2, 2024, 10, 0, AuthorB, <<"h", "i">>) >>

TimedIds == 1..14
ExampleIds == {1, 15, 16, 17}
StreakIds == {1, 18, 19, 20, 21}
RawIds == {1, 2} \cup (22..28)
SortedIds == 1..8
MonoIds == {1, 2}
HourIds == {1, 2, 3, 4, 11, 12, 13, 14}
StarterIds == {1, 2, 11, 12, 18} \cup (29..33)
ChainIds == {1, 3, 5, 15}

\* re.match and the groups of every line of the table
Parsed ==
    [k \in DOMAIN LineTable |->
        IF Matches(LineTable[k])
        THEN [ok |-> TRUE, row |-> Groups(LineTable[k])]
        ELSE [ok |-> FALSE, row |-> <<>>]]

\* a line that parse_chat can turn into a row: it matches and to_datetime accepts it
WellFormed(k) == Parsed[k].ok /\ ValidDatetime(Parsed[k].row)

\* the row of every well-formed line of the table
Rows ==
    [k \in DOMAIN LineTable |->
        IF WellFormed(k) THEN MakeRow(Parsed[k].row) ELSE <<>>]

Stamp(k) == Rows[k].datetime

SeqsUpTo(S, maxlen) == UNION {[1..len -> S] : len \in 0..maxlen}

InOrder(f) == \A k \in 1..(Len(f) - 1) : Stamp(f[k]) <= Stamp(f[k + 1])

ExampleFile == <<1, 15, 16, 17>>

\* two runs of five messages, B at 10:00 then A at 10:01, closed by B at 10:05
MonologueTieFile == <<2, 2, 2, 2, 2, 3, 3, 3, 3, 3, 6>>

\* A and B in turn at every offset: A replies after 1, 4, 5, 5, 45 and 1
\* minutes, B always within the minute
ReplyExampleFile == [k \in 1..14 |-> k]

\* A and B in turn at 10:00, 10:10, 10:15, 10:15 and 11:00: replies after
\* 10, 5, 0 and 45 minutes
WindowsExampleFile == <<1, 8, 9, 10, 11>>

\* at most one line has the author of the line before it
AlmostAlternating(f) ==
    Cardinality({k \in 1..(Len(f) - 1) : f[k] = f[k + 1]}) <= 1

Files ==
    SeqsUpTo(TimedIds \cup ExampleIds \cup StreakIds, MaxAnyLen)
    \cup SeqsUpTo(RawIds, MaxRawLen)
    \cup {f \in SeqsUpTo(SortedIds, MaxSortedLen) : InOrder(f)}
    \cup SeqsUpTo(MonoIds, MaxMonoLen)
    \cup {f \in SeqsUpTo(StreakIds, MaxStreakLen) : InOrder(f)}
    \cup {f \in SeqsUpTo(HourIds, MaxHourLen) : InOrder(f)}
    \cup {f \in SeqsUpTo(StarterIds, MaxStarterLen) : InOrder(f)}
    \cup {f \in SeqsUpTo(ChainIds, MaxChainLen) : InOrder(f)}
    \cup {f \in SeqsUpTo(MonoIds, MaxReplyLen) : AlmostAlternating(f)}
    \cup {ExampleFile, MonologueTieFile, ReplyExampleFile, WindowsExampleFile}

\* ------------------------------------------------------------------ state
VARIABLES
    file,              \* the lines of the chat export (indices into LineTable)
    pc,                \* "new", "ready", "loop", "done" or "raised"
    call,              \* the method being executed
    error,             \* the exception that propagated, "" when none
    df,                \* self.df : the rows, in file order
    i,                 \* loop index of the running scan
    response_times,
    dates, current_streak, max_streak, streak_end,
    interactions,
    author_messages, author_responses,
    bursts, current_burst,
    monologues, current_author, current_count, start_idx,
    chain_lengths, current_chain,
    starters,
    gaps,
    reply_times,
    reply_pairs,
    runs,              \* lengths of the run candidates the scan has closed, in order
    out                \* what the method reports

object == <<file, error, df>>
control == <<pc, call, i>>
responseVars == <<response_times>>
streakVars == <<dates, current_streak, max_streak, streak_end>>
interactionVars == <<interactions>>
rateVars == <<author_messages, author_responses>>
burstVars == <<bursts, current_burst>>
monologueVars == <<monologues, current_author, current_count, start_idx>>
chainVars == <<chain_lengths, current_chain>>
starterVars == <<starters>>
silenceVars == <<gaps>>
replyVars == <<reply_times>>
pairVars == <<reply_pairs>>
locals == <<responseVars, streakVars, interactionVars, rateVars, burstVars,
            monologueVars, chainVars, starterVars, silenceVars, replyVars,
            pairVars, runs, out>>
vars == <<object, control, locals>>

EmptyDict == [a \in {} |-> 0]

NoLocals ==
    /\ response_times = <<>>
    /\ dates = <<>> /\ current_streak = 0 /\ max_streak = 0 /\ streak_end = 0
    /\ interactions = <<>>
    /\ author_messages = EmptyDict /\ author_responses = EmptyDict
    /\ bursts = <<>> /\ current_burst = 0
    /\ monologues = <<>> /\ current_author = <<>> /\ current_count = 0 /\ start_idx = 0
    /\ chain_lengths = <<>> /\ current_chain = 0
    /\ starters = <<>>
    /\ gaps = <<>>
    /\ reply_times = EmptyDict
    /\ reply_pairs = <<>>
    /\ runs = <<>>
    /\ out = <<>>

Init ==
    /\ file \in Files
    /\ pc = "new" /\ call = "" /\ error = "" /\ df = <<>> /\ i = 0
    /\ NoLocals

\* ------------------------------------------------------------- parse_chat
\* the parse that appends a line that does not match to the message before it
RECURSIVE MatchedRows_joining(_)
MatchedRows_joining(f) ==
    IF f = <<>> THEN <<>>
    ELSE LET rest == MatchedRows_joining(SubSeq(f, 1, Len(f) - 1))
             last == f[Len(f)]
         IN  IF Parsed[last].ok THEN Append(rest, Parsed[last].row)
             ELSE IF rest = <<>> THEN rest
             ELSE [rest EXCEPT ![Len(rest)].message = @ \o Strip(LineTable[last])]

RECURSIVE MatchedRows(_)
MatchedRows(f) ==
    IF f = <<>> THEN <<>>
    ELSE (IF Parsed[Head(f)].ok THEN <<Parsed[Head(f)].row>> ELSE <<>>)
         \o MatchedRows(Tail(f))

\* __init__ -> parse_chat.  pd.DataFrame of an empty list has no columns, so
\* self.df['date'] raises KeyError; to_datetime raises ValueError on the first
\* row that is no calendar date and time.
parse_chat ==
    /\ pc = "new"
    /\ LET data == MatchedRows(file)
       IN  IF data = <<>>
           THEN /\ pc' = "raised" /\ error' = "KeyError" /\ df' = <<>>
           ELSE IF \E k \in 1..Len(data) : ~ValidDatetime(data[k])
           THEN /\ pc' = "raised" /\ error' = "ValueError" /\ df' = <<>>
           ELSE /\ pc' = "ready" /\ error' = ""
                /\ df' = [k \in 1..Len(data) |-> MakeRow(data[k])]
    /\ UNCHANGED <<file, call, i, locals>>

\* ------------------------------------------------------ access to self.df
n == Len(df)

\* self.df.iloc[k], k from 0
iloc(k) == df[k + 1]

\* (iloc[k].datetime - iloc[k-1].datetime).total_seconds() / 60
time_diff(k) == iloc(k).datetime - iloc(k - 1).datetime

\* ------------------------------------------------- sorting and counting
\* the insertion that puts a pair before the pairs of equal key
RECURSIVE InsertDesc_unstable(_, _)
InsertDesc_unstable(sorted, p) ==
    IF sorted = <<>> THEN <<p>>
    ELSE IF Head(sorted)[1] > p[1]
         THEN <<Head(sorted)>> \o InsertDesc_unstable(Tail(sorted), p)
    ELSE <<p>> \o sorted

\* sorted(..., reverse=True) on <<key, item>> pairs: descending by key,
\* pairs of equal key keep their original order
RECURSIVE InsertDesc(_, _)
InsertDesc(sorted, p) ==
    IF sorted = <<>> THEN <<p>>
    ELSE IF Head(sorted)[1] >= p[1] THEN <<Head(sorted)>> \o InsertDesc(Tail(sorted), p)
    ELSE <<p>> \o sorted

RECURSIVE SortedDesc(_)
SortedDesc(pairs) ==
    IF pairs = <<>> THEN <<>>
    ELSE InsertDesc(SortedDesc(SubSeq(pairs, 1, Len(pairs) - 1)), pairs[Len(pairs)])

\* sorted(...) ascending, stable
RECURSIVE InsertAsc(_, _)
InsertAsc(sorted, p) ==
    IF sorted = <<>> THEN <<p>>
    ELSE IF Head(sorted)[1] <= p[1] THEN <<Head(sorted)>> \o InsertAsc(Tail(sorted), p)
    ELSE <<p>> \o sorted

RECURSIVE SortedAsc(_)
SortedAsc(pairs) ==
    IF pairs = <<>> THEN <<>>
    ELSE InsertAsc(SortedAsc(SubSeq(pairs, 1, Len(pairs) - 1)), pairs[Len(pairs)])

\* sorted() of a list of numbers
SortedInts(xs) ==
    LET ps == SortedAsc([k \in 1..Len(xs) |-> <<xs[k], xs[k]>>])
    IN  [k \in 1..Len(xs) |-> ps[k][2]]

\* seq[:k]
Take(seq, k) == SubSeq(seq, 1, IF Len(seq) < k THEN Len(seq) ELSE k)

\* Series.unique(): the distinct values in order of first appearance
RECURSIVE Unique(_)
Unique(xs) ==
    IF xs = <<>> THEN <<>>
    ELSE LET u == Unique(SubSeq(xs, 1, Len(xs) - 1))
             x == xs[Len(xs)]
         IN  IF \E k \in 1..Len(u) : u[k] = x THEN u ELSE Append(u, x)

\* Counter(xs): <<count, key>> pairs in order of first appearance of the key
Counter(xs) ==
    LET keys == Unique(xs)
    IN  [k \in 1..Len(keys) |->
            <<Cardinality({j \in 1..Len(xs) : xs[j] = keys[k]}), keys[k]>>]

\* Counter(xs).most_common(top)
most_common(xs, top) == Take(SortedDesc(Counter(xs)), top)

RECURSIVE Sum(_)
Sum(xs) == IF xs = <<>> THEN 0 ELSE Head(xs) + Sum(Tail(xs))

Max(xs) == CHOOSE x \in {xs[k] : k \in 1..Len(xs)} : \A k \in 1..Len(xs) : xs[k] <= x

\* --------------------------------------------- conversation_length_analysis
\* the burst test with the boundary on the wrong side
same_burst_upto5(td) == td <= 5

\* time_diff < 5 : the message belongs to the current burst
same_burst(td) == td < 5

\* the length test that keeps a single isolated message
burst_kept_from1(length) == length >= 1

\* current_burst > 1 : the closed burst is recorded
burst_kept(length) == length > 1

conversation_length_analysis_begin ==
    /\ pc = "ready"
    /\ pc' = "loop" /\ call' = "conversation_length_analysis" /\ i' = 1
    /\ bursts' = <<>> /\ current_burst' = 1
    /\ runs' = <<>>
    /\ UNCHANGED <<object, pairVars, starterVars, silenceVars, replyVars,
                   responseVars, streakVars, interactionVars, rateVars,
                   monologueVars, chainVars, out>>

\* the scan that starts a new burst at 0 instead of 1
conversation_length_analysis_step_from0 ==
    /\ pc = "loop" /\ call = "conversation_length_analysis" /\ i < n
    /\ IF same_burst(time_diff(i))
       THEN /\ current_burst' = current_burst + 1
            /\ UNCHANGED <<bursts, runs>>
       ELSE /\ bursts' = IF burst_kept(current_burst)
                         THEN Append(bursts, current_burst) ELSE bursts
            /\ runs' = Append(runs, current_burst)
            /\ current_burst' = 0
    /\ i' = i + 1
    /\ UNCHANGED <<object, pairVars, starterVars, silenceVars, replyVars,
                   pc, call, responseVars, streakVars, interactionVars, rateVars,
                   monologueVars, chainVars, out>>

conversation_length_analysis_step ==
    /\ pc = "loop" /\ call = "conversation_length_analysis" /\ i < n
    /\ IF same_burst(time_diff(i))
       THEN /\ current_burst' = current_burst + 1
            /\ UNCHANGED <<bursts, runs>>
       ELSE /\ bursts' = IF burst_kept(current_burst)
                         THEN Append(bursts, current_burst) ELSE bursts
            /\ runs' = Append(runs, current_burst)
            /\ current_burst' = 1
    /\ i' = i + 1
    /\ UNCHANGED <<object, pairVars, starterVars, silenceVars, replyVars,
                   pc, call, responseVars, streakVars, interactionVars, rateVars,
                   monologueVars, chainVars, out>>

conversation_length_analysis_end ==
    /\ pc = "loop" /\ call = "conversation_length_analysis" /\ i >= n
    /\ pc' = "done"
    /\ out' = IF bursts # <<>>
              THEN [total   |-> Len(bursts),
                    average |-> <<Sum(bursts), Len(bursts)>>,
                    longest |-> Max(bursts),
                    median  |-> SortedInts(bursts)[(Len(bursts) \div 2) + 1]]
              ELSE [total |-> 0]
    /\ UNCHANGED <<object, pairVars, starterVars, silenceVars, replyVars,
                   call, i, responseVars, streakVars, interactionVars, rateVars,
                   burstVars, monologueVars, chainVars, runs>>

\* ------------------------------------------------------ monologue_detection
\* the author of message k differs from the author of message k - 1
speaker_changed(k) == iloc(k).author # iloc(k - 1).author

\* current_count >= 5 : the closed run is a monologue
monologue_kept(count) == count >= 5

monologue_detection_begin ==
    /\ pc = "ready"
    /\ pc' = "loop" /\ call' = "monologue_detection" /\ i' = 1
    /\ monologues' = <<>>
    /\ current_author' = iloc(0).author
    /\ current_count' = 1
    /\ start_idx' = 0
    /\ runs' = <<>>
    /\ UNCHANGED <<object, pairVars, starterVars, silenceVars, replyVars,
                   responseVars, streakVars, interactionVars, rateVars,
                   burstVars, chainVars, out>>

monologue_detection_step ==
    /\ pc = "loop" /\ call = "monologue_detection" /\ i < n
    /\ IF iloc(i).author = current_author
       THEN /\ current_count' = current_count + 1
            /\ UNCHANGED <<monologues, current_author, start_idx, runs>>
       ELSE /\ monologues' =
                IF monologue_kept(current_count)
                THEN Append(monologues, [author     |-> current_author,
                                         count      |-> current_count,
                                         start_time |-> iloc(start_idx).datetime])
                ELSE monologues
            /\ runs' = Append(runs, current_count)
            /\ current_author' = iloc(i).author
            /\ current_count' = 1
            /\ start_idx' = i
    /\ i' = i + 1
    /\ UNCHANGED <<object, pairVars, starterVars, silenceVars, replyVars,
                   pc, call, responseVars, streakVars, interactionVars, rateVars,
                   burstVars, chainVars, out>>

\* monologues.sort(key=count, reverse=True); the first 10 are printed
monologue_detection_end ==
    /\ pc = "loop" /\ call = "monologue_detection" /\ i >= n
    /\ pc' = "done"
    /\ LET ps == SortedDesc([k \in 1..Len(monologues) |->
                                <<monologues[k].count, monologues[k]>>])
       IN  /\ monologues' = [k \in 1..Len(ps) |-> ps[k][2]]
           /\ out' = Take([k \in 1..Len(ps) |-> ps[k][2]], 10)
    /\ UNCHANGED <<object, pairVars, starterVars, silenceVars, replyVars,
                   call, i, responseVars, streakVars, interactionVars, rateVars,
                   burstVars, current_author, current_count, start_idx, chainVars, runs>>

\* -------------------------------------------------------- reply_chain_depth
\* time_diff < 2 : the message belongs to the current chain
same_chain(td) == td < 2

\* the length test with the boundary on the wrong side
chain_kept_from2(length) == length >= 2

\* current_chain > 2 : the closed chain is recorded
chain_kept(length) == length > 2

reply_chain_depth_begin ==
    /\ pc = "ready"
    /\ pc' = "loop" /\ call' = "reply_chain_depth" /\ i' = 1
    /\ chain_lengths' = <<>> /\ current_chain' = 1
    /\ runs' = <<>>
    /\ UNCHANGED <<object, pairVars, starterVars, silenceVars, replyVars,
                   responseVars, streakVars, interactionVars, rateVars,
                   burstVars, monologueVars, out>>

reply_chain_depth_step ==
    /\ pc = "loop" /\ call = "reply_chain_depth" /\ i < n
    /\ IF same_chain(time_diff(i))
       THEN /\ current_chain' = current_chain + 1
            /\ UNCHANGED <<chain_lengths, runs>>
       ELSE /\ chain_lengths' = IF chain_kept(current_chain)
                                THEN Append(chain_lengths, current_chain)
                                ELSE chain_lengths
            /\ runs' = Append(runs, current_chain)
            /\ current_chain' = 1
    /\ i' = i + 1
    /\ UNCHANGED <<object, pairVars, starterVars, silenceVars, replyVars,
                   pc, call, responseVars, streakVars, interactionVars, rateVars,
                   burstVars, monologueVars, out>>

reply_chain_depth_end ==
    /\ pc = "loop" /\ call = "reply_chain_depth" /\ i >= n
    /\ pc' = "done"
    /\ out' = IF chain_lengths # <<>>
              THEN [total   |-> Len(chain_lengths),
                    average |-> <<Sum(chain_lengths), Len(chain_lengths)>>,
                    longest |-> Max(chain_lengths),
                    median  |-> SortedInts(chain_lengths)[(Len(chain_lengths) \div 2) + 1]]
              ELSE [total |-> 0]
    /\ UNCHANGED <<object, pairVars, starterVars, silenceVars, replyVars,
                   call, i, responseVars, streakVars, interactionVars, rateVars,
                   burstVars, monologueVars, chainVars, runs>>

\* --------------------------------------------------- response_time_analysis
\* the one-hour test with the boundary on the wrong side
within_hour_upto60(td) == td <= 60

\* the one hour test that rejects a message earlier than the one before it
within_hour_nonnegative(td) == td >= 0 /\ td < 60

\* time_diff < 60 : only responses within one hour are sampled
within_hour(td) == td < 60

response_time_analysis_begin ==
    /\ pc = "ready"
    /\ pc' = "loop" /\ call' = "response_time_analysis" /\ i' = 1
    /\ response_times' = <<>>
    /\ UNCHANGED <<object, pairVars, starterVars, silenceVars, replyVars,
                   streakVars, interactionVars, rateVars, burstVars,
                   monologueVars, chainVars, runs, out>>

response_time_analysis_step ==
    /\ pc = "loop" /\ call = "response_time_analysis" /\ i < n
    /\ response_times' =
           IF speaker_changed(i) /\ within_hour(time_diff(i))
           THEN Append(response_times, time_diff(i))
           ELSE response_times
    /\ i' = i + 1
    /\ UNCHANGED <<object, pairVars, starterVars, silenceVars, replyVars,
                   pc, call, streakVars, interactionVars, rateVars, burstVars,
                   monologueVars, chainVars, runs, out>>

\* the report that takes the element before the midpoint of an even sample
response_time_analysis_end_lower_median ==
    /\ pc = "loop" /\ call = "response_time_analysis" /\ i >= n
    /\ pc' = "done"
    /\ out' = IF response_times # <<>>
              THEN [average |-> <<Sum(response_times), Len(response_times)>>,
                    median  |-> SortedInts(response_times)[((Len(response_times) - 1) \div 2) + 1]]
              ELSE [average |-> <<>>, median |-> <<>>]
    /\ UNCHANGED <<object, pairVars, starterVars, silenceVars, replyVars,
                   call, i, responseVars, streakVars, interactionVars, rateVars,
                   burstVars, monologueVars, chainVars, runs>>

response_time_analysis_end ==
    /\ pc = "loop" /\ call = "response_time_analysis" /\ i >= n
    /\ pc' = "done"
    /\ out' = IF response_times # <<>>
              THEN [average |-> <<Sum(response_times), Len(response_times)>>,
                    median  |-> SortedInts(response_times)[(Len(response_times) \div 2) + 1]]
              ELSE [average |-> <<>>, median |-> <<>>]
    /\ UNCHANGED <<object, pairVars, starterVars, silenceVars, replyVars,
                   call, i, responseVars, streakVars, interactionVars, rateVars,
                   burstVars, monologueVars, chainVars, runs>>

\* ----------------------------------------------------------- streak_analysis
\* the day test that takes any later date for the next day
next_day_or_later(prev, cur) == cur - prev >= 1

\* (dates[i] - dates[i-1]).days == 1
next_day(prev, cur) == cur - prev = 1

\* sorted(self.df['date_only'].unique())
sorted_dates == SortedInts(Unique([k \in 1..n |-> df[k].date_only]))

\* the streak scan that starts from a longest streak of 0
streak_analysis_begin_max0 ==
    /\ pc = "ready"
    /\ pc' = "loop" /\ call' = "streak_analysis" /\ i' = 1
    /\ dates' = sorted_dates
    /\ current_streak' = 1
    /\ max_streak' = 0
    /\ streak_end' = sorted_dates[1]
    /\ UNCHANGED <<object, pairVars, starterVars, silenceVars, replyVars,
                   responseVars, interactionVars, rateVars, burstVars,
                   monologueVars, chainVars, runs, out>>

streak_analysis_begin ==
    /\ pc = "ready"
    /\ pc' = "loop" /\ call' = "streak_analysis" /\ i' = 1
    /\ dates' = sorted_dates
    /\ current_streak' = 1
    /\ max_streak' = 1
    /\ streak_end' = sorted_dates[1]
    /\ UNCHANGED <<object, pairVars, starterVars, silenceVars, replyVars,
                   responseVars, interactionVars, rateVars, burstVars,
                   monologueVars, chainVars, runs, out>>

\* the streak scan that also replaces the candidate on an equal length
streak_analysis_step_or_equal ==
    /\ pc = "loop" /\ call = "streak_analysis" /\ i < Len(dates)
    /\ IF next_day(dates[i], dates[i + 1])
       THEN /\ current_streak' = current_streak + 1
            /\ IF current_streak + 1 >= max_streak
               THEN max_streak' = current_streak + 1 /\ streak_end' = dates[i + 1]
               ELSE UNCHANGED <<max_streak, streak_end>>
       ELSE /\ current_streak' = 1
            /\ UNCHANGED <<max_streak, streak_end>>
    /\ i' = i + 1
    /\ UNCHANGED <<object, pairVars, starterVars, silenceVars, replyVars,
                   pc, call, dates, responseVars, interactionVars, rateVars,
                   burstVars, monologueVars, chainVars, runs, out>>

streak_analysis_step ==
    /\ pc = "loop" /\ call = "streak_analysis" /\ i < Len(dates)
    /\ IF next_day(dates[i], dates[i + 1])
       THEN /\ current_streak' = current_streak + 1
            /\ IF current_streak + 1 > max_streak
               THEN max_streak' = current_streak + 1 /\ streak_end' = dates[i + 1]
               ELSE UNCHANGED <<max_streak, streak_end>>
       ELSE /\ current_streak' = 1
            /\ UNCHANGED <<max_streak, streak_end>>
    /\ i' = i + 1
    /\ UNCHANGED <<object, pairVars, starterVars, silenceVars, replyVars,
                   pc, call, dates, responseVars, interactionVars, rateVars,
                   burstVars, monologueVars, chainVars, runs, out>>

streak_analysis_end ==
    /\ pc = "loop" /\ call = "streak_analysis" /\ i >= Len(dates)
    /\ pc' = "done"
    /\ out' = [max_streak |-> max_streak, streak_end |-> streak_end]
    /\ UNCHANGED <<object, pairVars, starterVars, silenceVars, replyVars,
                   call, i, responseVars, streakVars, interactionVars, rateVars,
                   burstVars, monologueVars, chainVars, runs>>

\* ------------------------------------------------- author_interaction_matrix
\* the 10 minute test with the boundary on the wrong side
reply_within_10_upto10(td) == td <= 10

\* time_diff < 10 : a reply within 10 minutes
reply_within_10(td) == td < 10

\* the pair appended for the transition into message k
interaction_pair(k) == <<iloc(k - 1).author, iloc(k).author>>

author_interaction_matrix_begin ==
    /\ pc = "ready"
    /\ pc' = "loop" /\ call' = "author_interaction_matrix" /\ i' = 1
    /\ interactions' = <<>>
    /\ UNCHANGED <<object, pairVars, starterVars, silenceVars, replyVars,
                   responseVars, streakVars, rateVars, burstVars,
                   monologueVars, chainVars, runs, out>>

author_interaction_matrix_step ==
    /\ pc = "loop" /\ call = "author_interaction_matrix" /\ i < n
    /\ interactions' =
           IF speaker_changed(i) /\ reply_within_10(time_diff(i))
           THEN Append(interactions, interaction_pair(i))
           ELSE interactions
    /\ i' = i + 1
    /\ UNCHANGED <<object, pairVars, starterVars, silenceVars, replyVars,
                   pc, call, responseVars, streakVars, rateVars, burstVars,
                   monologueVars, chainVars, runs, out>>

\* interaction_counts = Counter(interactions).most_common(15), when there are any
author_interaction_matrix_end ==
    /\ pc = "loop" /\ call = "author_interaction_matrix" /\ i >= n
    /\ pc' = "done"
    /\ out' = IF interactions # <<>> THEN most_common(interactions, 15) ELSE <<>>
    /\ UNCHANGED <<object, pairVars, starterVars, silenceVars, replyVars,
                   call, i, responseVars, streakVars, interactionVars, rateVars,
                   burstVars, monologueVars, chainVars, runs>>

\* ------------------------------------------------------ author_response_rate
\* time_diff < 15 : a response within 15 minutes
response_within_15(td) == td < 15

\* self.df['author'].unique(), the insertion order of both dictionaries
authors == Unique([k \in 1..n |-> df[k].author])

\* the response credited to the author who was answered
credited_previous(k) == iloc(k - 1).author

\* the author credited with the response that message k is
credited(k) == iloc(k).author

\* the rows printed: the authors by descending author_messages (at most 15),
\* each with its rate author_responses / author_messages * 100 as <<numerator,
\* denominator>>, skipped when it has no messages
response_rate_rows ==
    LET ranked == Take(SortedDesc([k \in 1..Len(authors) |->
                                      <<author_messages[authors[k]], authors[k]>>]), 15)
        shown == SelectSeq(ranked, LAMBDA p : author_messages[p[2]] > 0)
    IN  [k \in 1..Len(shown) |->
            [author        |-> shown[k][2],
             response_rate |-> <<author_responses[shown[k][2]] * 100,
                                 author_messages[shown[k][2]]>>,
             total         |-> author_messages[shown[k][2]]]]

author_response_rate_begin ==
    /\ pc = "ready"
    /\ pc' = "loop" /\ call' = "author_response_rate" /\ i' = 0
    /\ author_messages' = [a \in {authors[k] : k \in 1..Len(authors)} |-> 0]
    /\ author_responses' = [a \in {authors[k] : k \in 1..Len(authors)} |-> 0]
    /\ UNCHANGED <<object, pairVars, starterVars, silenceVars, replyVars,
                   responseVars, streakVars, interactionVars, burstVars,
                   monologueVars, chainVars, runs, out>>

\* the scan without the i > 0 guard: iloc[-1] is the last message
author_response_rate_step_wrapping ==
    /\ pc = "loop" /\ call = "author_response_rate" /\ i < n
    /\ author_messages' =
           [author_messages EXCEPT ![iloc(i).author] = @ + 1]
    /\ author_responses' =
           LET prev == IF i = 0 THEN df[n] ELSE iloc(i - 1)
           IN  IF /\ iloc(i).author # prev.author
                  /\ response_within_15(iloc(i).datetime - prev.datetime)
               THEN [author_responses EXCEPT ![credited(i)] = @ + 1]
               ELSE author_responses
    /\ i' = i + 1
    /\ UNCHANGED <<object, pairVars, starterVars, silenceVars, replyVars,
                   pc, call, responseVars, streakVars, interactionVars, burstVars,
                   monologueVars, chainVars, runs, out>>

author_response_rate_step ==
    /\ pc = "loop" /\ call = "author_response_rate" /\ i < n
    /\ author_messages' =
           [author_messages EXCEPT ![iloc(i).author] = @ + 1]
    /\ author_responses' =
           IF i > 0 /\ speaker_changed(i) /\ response_within_15(time_diff(i))
           THEN [author_responses EXCEPT ![credited(i)] = @ + 1]
           ELSE author_responses
    /\ i' = i + 1
    /\ UNCHANGED <<object, pairVars, starterVars, silenceVars, replyVars,
                   pc, call, responseVars, streakVars, interactionVars, burstVars,
                   monologueVars, chainVars, runs, out>>

author_response_rate_end ==
    /\ pc = "loop" /\ call = "author_response_rate" /\ i >= n
    /\ pc' = "done"
    /\ out' = response_rate_rows
    /\ UNCHANGED <<object, pairVars, starterVars, silenceVars, replyVars,
                   call, i, responseVars, streakVars, interactionVars, rateVars,
                   burstVars, monologueVars, chainVars, runs>>

\* ----------------------------------------------------- conversation_starters
\* the four hour test with the boundary on the wrong side
new_conversation_from4(td) == td >= 4 * 60

\* time_gap > 4 (hours) : message k opens a new conversation
new_conversation(td) == td > 4 * 60

conversation_starters_begin ==
    /\ pc = "ready"
    /\ pc' = "loop" /\ call' = "conversation_starters" /\ i' = 1
    /\ starters' = <<>>
    /\ UNCHANGED <<object, pairVars, silenceVars, replyVars,
                   responseVars, streakVars, interactionVars, rateVars, burstVars,
                   monologueVars, chainVars, runs, out>>

conversation_starters_step ==
    /\ pc = "loop" /\ call = "conversation_starters" /\ i < n
    /\ starters' =
           IF new_conversation(time_diff(i))
           THEN Append(starters, iloc(i).author)
           ELSE starters
    /\ i' = i + 1
    /\ UNCHANGED <<object, pairVars, silenceVars, replyVars,
                   pc, call, responseVars, streakVars, interactionVars, rateVars,
                   burstVars, monologueVars, chainVars, runs, out>>

\* starter_counts = Counter(starters).most_common(top_n), top_n = 10
conversation_starters_end ==
    /\ pc = "loop" /\ call = "conversation_starters" /\ i >= n
    /\ pc' = "done"
    /\ out' = most_common(starters, 10)
    /\ UNCHANGED <<object, pairVars, starterVars, silenceVars, replyVars,
                   call, i, responseVars, streakVars, interactionVars, rateVars,
                   burstVars, monologueVars, chainVars, runs>>

\* ----------------------------------------------------------- silence_periods
\* the one hour test with the boundary on the wrong side
silence_from1(td) == td >= 60

\* gap > 1 (hour) : the gap before message k is a silence period
silence(td) == td > 60

\* the record appended for the gap before message k; hours is time_diff / 60
silence_record(k) ==
    [start |-> iloc(k - 1).datetime, end |-> iloc(k).datetime,
     hours |-> <<time_diff(k), 60>>]

silence_periods_begin ==
    /\ pc = "ready"
    /\ pc' = "loop" /\ call' = "silence_periods" /\ i' = 1
    /\ gaps' = <<>>
    /\ UNCHANGED <<object, pairVars, starterVars, replyVars,
                   responseVars, streakVars, interactionVars, rateVars, burstVars,
                   monologueVars, chainVars, runs, out>>

silence_periods_step ==
    /\ pc = "loop" /\ call = "silence_periods" /\ i < n
    /\ gaps' =
           IF silence(time_diff(i))
           THEN Append(gaps, silence_record(i))
           ELSE gaps
    /\ i' = i + 1
    /\ UNCHANGED <<object, pairVars, starterVars, replyVars,
                   pc, call, responseVars, streakVars, interactionVars, rateVars,
                   burstVars, monologueVars, chainVars, runs, out>>

\* gaps.sort(key=hours, reverse=True), then gaps[:10] is printed
silence_periods_end ==
    /\ pc = "loop" /\ call = "silence_periods" /\ i >= n
    /\ pc' = "done"
    /\ LET ps == SortedDesc([k \in 1..Len(gaps) |-> <<gaps[k].hours[1], gaps[k]>>])
       IN  /\ gaps' = [k \in 1..Len(ps) |-> ps[k][2]]
           /\ out' = Take([k \in 1..Len(ps) |-> ps[k][2]], 10)
    /\ UNCHANGED <<object, pairVars, starterVars, replyVars,
                   call, i, responseVars, streakVars, interactionVars, rateVars,
                   burstVars, monologueVars, chainVars, runs>>

\* ----------------------------------------------------- reply_speed_by_author
\* the sample test with the boundary on the wrong side
enough_samples_from5(times) == Len(times) >= 5

\* len(times) > 5 : the author's mean is reported
enough_samples(times) == Len(times) > 5

\* time_diff < 60 : only replies within 1 hour
reply_within_hour(td) == td < 60

\* the author whose list receives the latency of the transition into message k
replier(k) == iloc(k).author

\* list.sort(key=mean) on <<author, <<sum, len>>>> pairs: ascending by
\* sum / len, pairs of equal mean keep their order
RECURSIVE InsertByMean(_, _)
InsertByMean(sorted, p) ==
    IF sorted = <<>> THEN <<p>>
    ELSE IF Head(sorted)[2][1] * p[2][2] <= p[2][1] * Head(sorted)[2][2]
         THEN <<Head(sorted)>> \o InsertByMean(Tail(sorted), p)
    ELSE <<p>> \o sorted

RECURSIVE SortedByMean(_)
SortedByMean(pairs) ==
    IF pairs = <<>> THEN <<>>
    ELSE InsertByMean(SortedByMean(SubSeq(pairs, 1, Len(pairs) - 1)), pairs[Len(pairs)])

\* avg_reply before the sort: (author, sum(times) / len(times)) in dictionary
\* order, for the authors with enough samples
avg_reply ==
    LET kept == SelectSeq(authors, LAMBDA a : enough_samples(reply_times[a]))
    IN  [k \in 1..Len(kept) |->
            <<kept[k], <<Sum(reply_times[kept[k]]), Len(reply_times[kept[k]])>> >>]

reply_speed_by_author_begin ==
    /\ pc = "ready"
    /\ pc' = "loop" /\ call' = "reply_speed_by_author" /\ i' = 1
    /\ reply_times' = [a \in {authors[k] : k \in 1..Len(authors)} |-> <<>>]
    /\ UNCHANGED <<object, pairVars, starterVars, silenceVars,
                   responseVars, streakVars, interactionVars, rateVars, burstVars,
                   monologueVars, chainVars, runs, out>>

reply_speed_by_author_step ==
    /\ pc = "loop" /\ call = "reply_speed_by_author" /\ i < n
    /\ reply_times' =
           IF speaker_changed(i) /\ reply_within_hour(time_diff(i))
           THEN [reply_times EXCEPT ![replier(i)] = Append(@, time_diff(i))]
           ELSE reply_times
    /\ i' = i + 1
    /\ UNCHANGED <<object, pairVars, starterVars, silenceVars,
                   pc, call, responseVars, streakVars, interactionVars, rateVars,
                   burstVars, monologueVars, chainVars, runs, out>>

\* avg_reply.sort(key=mean), then avg_reply[:15] is printed
reply_speed_by_author_end ==
    /\ pc = "loop" /\ call = "reply_speed_by_author" /\ i >= n
    /\ pc' = "done"
    /\ out' = Take(SortedByMean(avg_reply), 15)
    /\ UNCHANGED <<object, pairVars, starterVars, silenceVars, replyVars,
                   call, i, responseVars, streakVars, interactionVars, rateVars,
                   burstVars, monologueVars, chainVars, runs>>

\* --------------------------------------------------------- who_talks_to_whom
\* the quick reply test that reaches past the 10 minute window
quick_reply_upto10(td) == td <= 10

\* time_diff < 5 : a quick reply within 5 minutes
quick_reply(td) == td < 5

\* the pair appended for the quick reply that message k is
reply_pair(k) == <<iloc(k - 1).author, iloc(k).author>>

who_talks_to_whom_begin ==
    /\ pc = "ready"
    /\ pc' = "loop" /\ call' = "who_talks_to_whom" /\ i' = 1
    /\ reply_pairs' = <<>>
    /\ UNCHANGED <<object, starterVars, silenceVars, replyVars,
                   responseVars, streakVars, interactionVars, rateVars, burstVars,
                   monologueVars, chainVars, runs, out>>

who_talks_to_whom_step ==
    /\ pc = "loop" /\ call = "who_talks_to_whom" /\ i < n
    /\ reply_pairs' =
           IF speaker_changed(i) /\ quick_reply(time_diff(i))
           THEN Append(reply_pairs, reply_pair(i))
           ELSE reply_pairs
    /\ i' = i + 1
    /\ UNCHANGED <<object, starterVars, silenceVars, replyVars,
                   pc, call, responseVars, streakVars, interactionVars, rateVars,
                   burstVars, monologueVars, chainVars, runs, out>>

\* pair_counts = Counter(reply_pairs).most_common(20), when there are any
who_talks_to_whom_end ==
    /\ pc = "loop" /\ call = "who_talks_to_whom" /\ i >= n
    /\ pc' = "done"
    /\ out' = IF reply_pairs # <<>> THEN most_common(reply_pairs, 20) ELSE <<>>
    /\ UNCHANGED <<object, pairVars, starterVars, silenceVars, replyVars,
                   call, i, responseVars, streakVars, interactionVars, rateVars,
                   burstVars, monologueVars, chainVars, runs>>

\* -------------------------------------------------------- weekend_vs_weekday
\* self.df[column] = values : the column is added to (or replaced in) every row
SetColumn(column, values) ==
    [k \in 1..n |-> (column :> values[k]) @@ df[k]]

\* day_of_week.isin(['Saturday', 'Sunday'])
is_weekend(row) == row.day_of_week \in {"Saturday", "Sunday"}

\* the method assigns self.df['is_weekend'] and reports both counts
weekend_vs_weekday ==
    /\ pc = "ready"
    /\ pc' = "done" /\ call' = "weekend_vs_weekday"
    /\ df' = SetColumn("is_weekend", [k \in 1..n |-> is_weekend(df[k])])
    /\ out' = [weekend |-> Cardinality({k \in 1..n : is_weekend(df[k])}),
               weekday |-> Cardinality({k \in 1..n : ~is_weekend(df[k])})]
    /\ UNCHANGED <<file, error, i, pairVars, starterVars, silenceVars, replyVars,
                   responseVars, streakVars, interactionVars, rateVars, burstVars,
                   monologueVars, chainVars, runs>>

\* ------------------------------------------------------ peak_activity_finder
\* day_of_week + ' ' + hour.astype(str) + ':00', kept as the pair
hour_day(row) == <<row.day_of_week, row.hour>>

\* value_counts() of the hour_day column, as a set of <<count, slot>> pairs:
\* the order value_counts gives to slots of equal count is not specified
slot_counts ==
    LET counted == Counter([k \in 1..n |-> hour_day(df[k])])
    IN  {counted[k] : k \in 1..Len(counted)}

\* the method assigns self.df['hour_day'] and reports value_counts().head(10)
peak_activity_finder ==
    /\ pc = "ready"
    /\ pc' = "done" /\ call' = "peak_activity_finder"
    /\ df' = SetColumn("hour_day", [k \in 1..n |-> hour_day(df[k])])
    /\ IF Cardinality(slot_counts) <= 10
       THEN out' = slot_counts
       ELSE out' \in {top \in SUBSET slot_counts :
                         /\ Cardinality(top) = 10
                         /\ \A p \in top, q \in slot_counts \ top : p[1] >= q[1]}
    /\ UNCHANGED <<file, error, i, pairVars, starterVars, silenceVars, replyVars,
                   responseVars, streakVars, interactionVars, rateVars, burstVars,
                   monologueVars, chainVars, runs>>

\* ------------------------------------------------------------------ return
\* the method returns: its locals are gone
return ==
    /\ pc = "done"
    /\ pc' = "ready" /\ i' = 0
    /\ response_times' = <<>>
    /\ dates' = <<>> /\ current_streak' = 0 /\ max_streak' = 0 /\ streak_end' = 0
    /\ interactions' = <<>>
    /\ author_messages' = EmptyDict /\ author_responses' = EmptyDict
    /\ bursts' = <<>> /\ current_burst' = 0
    /\ monologues' = <<>> /\ current_author' = <<>> /\ current_count' = 0 /\ start_idx' = 0
    /\ chain_lengths' = <<>> /\ current_chain' = 0
    /\ starters' = <<>>
    /\ gaps' = <<>>
    /\ reply_times' = EmptyDict
    /\ reply_pairs' = <<>>
    /\ runs' = <<>>
    /\ out' = <<>>
    /\ call' = ""
    /\ UNCHANGED object

Next ==
    \/ parse_chat
    \/ conversation_length_analysis_begin
    \/ conversation_length_analysis_step
    \/ conversation_length_analysis_end
    \/ monologue_detection_begin
    \/ monologue_detection_step
    \/ monologue_detection_end
    \/ reply_chain_depth_begin
    \/ reply_chain_depth_step
    \/ reply_chain_depth_end
    \/ response_time_analysis_begin
    \/ response_time_analysis_step
    \/ response_time_analysis_end
    \/ streak_analysis_begin
    \/ streak_analysis_step
    \/ streak_analysis_end
    \/ author_interaction_matrix_begin
    \/ author_interaction_matrix_step
    \/ author_interaction_matrix_end
    \/ author_response_rate_begin
    \/ author_response_rate_step
    \/ author_response_rate_end
    \/ conversation_starters_begin
    \/ conversation_starters_step
    \/ conversation_starters_end
    \/ silence_periods_begin
    \/ silence_periods_step
    \/ silence_periods_end
    \/ reply_speed_by_author_begin
    \/ reply_speed_by_author_step
    \/ reply_speed_by_author_end
    \/ who_talks_to_whom_begin
    \/ who_talks_to_whom_step
    \/ who_talks_to_whom_end
    \/ return

Spec == Init /\ [][Next]_vars

\* every method of the model, the two that assign a column of self.df included
NextFrame ==
    \/ parse_chat
    \/ conversation_length_analysis_begin
    \/ conversation_length_analysis_step
    \/ conversation_length_analysis_end
    \/ monologue_detection_begin
    \/ monologue_detection_step
    \/ monologue_detection_end
    \/ reply_chain_depth_begin
    \/ reply_chain_depth_step
    \/ reply_chain_depth_end
    \/ response_time_analysis_begin
    \/ response_time_analysis_step
    \/ response_time_analysis_end
    \/ streak_analysis_begin
    \/ streak_analysis_step
    \/ streak_analysis_end
    \/ author_interaction_matrix_begin
    \/ author_interaction_matrix_step
    \/ author_interaction_matrix_end
    \/ author_response_rate_begin
    \/ author_response_rate_step
    \/ author_response_rate_end
    \/ conversation_starters_begin
    \/ conversation_starters_step
    \/ conversation_starters_end
    \/ silence_periods_begin
    \/ silence_periods_step
    \/ silence_periods_end
    \/ reply_speed_by_author_begin
    \/ reply_speed_by_author_step
    \/ reply_speed_by_author_end
    \/ who_talks_to_whom_begin
    \/ who_talks_to_whom_step
    \/ who_talks_to_whom_end
    \/ weekend_vs_weekday
    \/ peak_activity_finder
    \/ return

SpecFrame == Init /\ [][NextFrame]_vars

\* ================================================================== claims
running(name) == call = name /\ pc \in {"loop", "done"}
finished(name) == call = name /\ pc = "done"

\* the start indices of the run candidates after the first
RunStarts == {Sum(SubSeq(runs, 1, j)) : j \in 1..Len(runs)}

\* C1: the run still in progress at the end of the scan is evaluated against
\* the minimum-length filter and recorded like a run closed by a break: when
\* the break predicate is never true, a scan over n messages records exactly
\* one run of length n (bursts n >= 2, chains n >= 3, monologues n >= 5).
C1_FinalRunRecorded ==
    /\ ( /\ finished("conversation_length_analysis") /\ n >= 2
         /\ \A k \in 1..(n - 1) : time_diff(k) < 5 )
       => bursts = <<n>>
    /\ ( /\ finished("reply_chain_depth") /\ n >= 3
         /\ \A k \in 1..(n - 1) : time_diff(k) < 2 )
       => chain_lengths = <<n>>
    /\ ( /\ finished("monologue_detection") /\ n >= 5
         /\ \A k \in 1..(n - 1) : iloc(k).author = iloc(0).author )
       => (Len(monologues) = 1 /\ monologues[1].count = n)

\* no line of the file matches the line grammar
NoLineMatches == \A k \in 1..Len(file) : ~Parsed[file[k]].ok

\* C2: when no line matches the grammar, construction and every analysis
\* complete without raising and report 0 bursts, 0 chains, 0 monologues, a
\* streak of length 0, no interaction edges and an empty response-rate table.
C2_EmptyInputCompletes ==
    NoLineMatches =>
        /\ pc # "raised"
        /\ finished("conversation_length_analysis") => bursts = <<>>
        /\ finished("reply_chain_depth") => chain_lengths = <<>>
        /\ finished("monologue_detection") => monologues = <<>>
        /\ finished("streak_analysis") => max_streak = 0
        /\ finished("author_interaction_matrix") => interactions = <<>>
        /\ finished("author_response_rate") => out = <<>>

\* the rows of the well-formed lines of a file, in file order
RECURSIVE WellFormedRows(_)
WellFormedRows(f) ==
    IF f = <<>> THEN <<>>
    ELSE (IF WellFormed(Head(f)) THEN <<Rows[Head(f)]>> ELSE <<>>)
         \o WellFormedRows(Tail(f))

\* C3: parsing is total: whatever malformed lines the file holds (lines with
\* an impossible date or time among them), parse_chat completes and builds
\* the sequence from the well-formed lines.
C3_ParsingTotal ==
    (pc # "new" /\ \E k \in 1..Len(file) : WellFormed(file[k]))
        => (pc # "raised" /\ df = WellFormedRows(file))

\* C4: in the burst scan messages k-1 and k are in the same burst exactly
\* when their gap is strictly less than 5 minutes: a gap of 5 or more closes
\* the burst and starts a new one at k, a gap of 4 or less extends it.
C4_BurstBoundary ==
    running("conversation_length_analysis") =>
        /\ \A k \in 1..(i - 1) : (k \in RunStarts) <=> (time_diff(k) >= 5)
        /\ current_burst = i - Sum(runs)

C4_Witness ==
    /\ finished("conversation_length_analysis")
    /\ \E k \in 1..(n - 1) : time_diff(k) = 5 /\ k \in RunStarts
    /\ \E k \in 1..(n - 1) : time_diff(k) = 4 /\ k \notin RunStarts

\* messages a..b are a maximal run of one author
MaximalAuthorRun(a, b) ==
    /\ \A k \in a..b : iloc(k).author = iloc(a).author
    /\ a = 0 \/ iloc(a - 1).author # iloc(a).author
    /\ b = n - 1 \/ iloc(b + 1).author # iloc(b).author

Registered(a, b) ==
    \E m \in 1..Len(monologues) :
        /\ monologues[m].author = iloc(a).author
        /\ monologues[m].count = b - a + 1
        /\ monologues[m].start_time = iloc(a).datetime

\* C5: a maximal run of consecutive messages by one author is registered as
\* a monologue (author, length, time of its first message) exactly when its
\* length is at least 5, wherever in the sequence the run lies.
C5_MonologueMinimum ==
    finished("monologue_detection") =>
        \A a \in 0..(n - 1), b \in 0..(n - 1) :
            (a <= b /\ MaximalAuthorRun(a, b)) => (Registered(a, b) <=> b - a + 1 >= 5)

\* the calendar dates with at least one message
DateSet == {df[k].date_only : k \in 1..n}

\* the length of the longest run of consecutive calendar dates in a set
LongestRunOfDays(S) ==
    CHOOSE len \in 1..Cardinality(S) :
        /\ \E d \in S : \A j \in 0..(len - 1) : d + j \in S
        /\ \A more \in (len + 1)..Cardinality(S) :
               ~\E d \in S : \A j \in 0..(more - 1) : d + j \in S

StreakDay == Ordinal(2024, 2, 27)

ExampleDates == {StreakDay, StreakDay + 1, StreakDay + 2, StreakDay + 5, StreakDay + 6}

\* C6: the longest streak is the length of the longest run of consecutive
\* calendar dates among the distinct dates with a message, however many
\* messages a date has; for {D, D+1, D+2, D+5, D+6} it is 3, ending D+2.
C6_LongestStreak ==
    finished("streak_analysis") =>
        /\ max_streak = LongestRunOfDays(DateSet)
        /\ out.max_streak = max_streak
        /\ DateSet = ExampleDates => (max_streak = 3 /\ streak_end = StreakDay + 2)

C6_Witness ==
    /\ finished("streak_analysis")
    /\ DateSet = ExampleDates
    /\ n > Cardinality(DateSet)
    /\ out.max_streak = 3

\* C7: the run candidates of a scan (those closed by a break, then the one in
\* progress) are non-empty contiguous ranges that cover the messages scanned
\* so far exactly once: their lengths sum to the number of messages scanned,
\* which is n at the end, and the monologue scan's start_idx is where the
\* candidate in progress starts.
C7_RunsPartition ==
    /\ \A j \in 1..Len(runs) : runs[j] >= 1
    /\ running("conversation_length_analysis") =>
           (current_burst >= 1 /\ Sum(runs) + current_burst = i)
    /\ running("reply_chain_depth") =>
           (current_chain >= 1 /\ Sum(runs) + current_chain = i)
    /\ running("monologue_detection") =>
           (current_count >= 1 /\ Sum(runs) + current_count = i /\ start_idx = Sum(runs))
    /\ ( /\ pc = "done"
         /\ call \in {"conversation_length_analysis", "reply_chain_depth",
                       "monologue_detection"} )
       => i = n

C7_Witness ==
    /\ finished("conversation_length_analysis")
    /\ Len(runs) >= 2
    /\ current_burst >= 2
    /\ Sum(runs) + current_burst = n

\* the number of transitions into messages 1..upto that go from author a to
\* a different author b with a gap under limit
Transitions(a, b, limit, upto) ==
    Cardinality({k \in 1..upto :
        /\ iloc(k - 1).author = a /\ iloc(k).author = b
        /\ a # b /\ time_diff(k) < limit})

AuthorSet == {df[k].author : k \in 1..n}

\* the count Counter(...).most_common gives a key, 0 when the key is absent
CountOf(counts, key) ==
    IF \E j \in 1..Len(counts) : counts[j][2] = key
    THEN counts[CHOOSE j \in 1..Len(counts) : counts[j][2] = key][1]
    ELSE 0

\* C8: author_interaction_matrix records one edge (author[k-1], author[k])
\* for exactly the consecutive pairs whose authors differ and whose latency is
\* under 10 minutes, counted by ordered pair; the example
\* (0,A)(3,B)(12,B)(14,A) gives one A->B edge and one B->A edge.
C8_InteractionEdges ==
    /\ running("author_interaction_matrix") =>
        /\ \A a \in AuthorSet, b \in AuthorSet :
               Cardinality({j \in 1..Len(interactions) : interactions[j] = <<a, b>>})
                   = Transitions(a, b, 10, i - 1)
        /\ \A j \in 1..Len(interactions) : interactions[j][1] # interactions[j][2]
    /\ finished("author_interaction_matrix") =>
        /\ \A j \in 1..Len(out) :
               out[j][1] = Transitions(out[j][2][1], out[j][2][2], 10, n - 1)
        /\ Len(Unique(interactions)) <= 15 =>
               \A a \in AuthorSet, b \in AuthorSet :
                   CountOf(out, <<a, b>>) = Transitions(a, b, 10, n - 1)
        /\ \A j \in 1..Len(out), k \in 1..Len(out) : out[j][2] = out[k][2] => j = k
        /\ file = ExampleFile =>
               out = << <<1, <<AuthorA, AuthorB>>>>, <<1, <<AuthorB, AuthorA>>>> >>

C8_Witness ==
    /\ finished("author_interaction_matrix")
    /\ file = ExampleFile
    /\ Len(out) = 2

\* the latencies of the speaker changes under 60 minutes among the
\* transitions into messages 1..upto, in order
RECURSIVE ResponseSample(_)
ResponseSample(upto) ==
    IF upto < 1 THEN <<>>
    ELSE ResponseSample(upto - 1) \o
         (IF iloc(upto).author # iloc(upto - 1).author /\ time_diff(upto) < 60
          THEN <<time_diff(upto)>> ELSE <<>>)

\* C9: the response-time sample holds the latency of a consecutive pair
\* exactly when the authors differ and the latency is under 60 minutes; a
\* latency of 60 or more is left out, never entered as 60.
C9_ResponseSample ==
    running("response_time_analysis") =>
        /\ response_times = ResponseSample(i - 1)
        /\ \A j \in 1..Len(response_times) : response_times[j] < 60

C9_Witness ==
    /\ finished("response_time_analysis")
    /\ \E k \in 1..(n - 1) : speaker_changed(k) /\ time_diff(k) = 61
    /\ \E k \in 1..(n - 1) : speaker_changed(k) /\ time_diff(k) < 60
    /\ Len(response_times) = 1

\* C10: author_response_rate credits a response to the author of message k
\* exactly when k > 0, the author differs from the author of message k-1 and
\* the latency is under 15 minutes; the rate of an author is responses over
\* messages, computed for a positive number of messages, and the authors are
\* listed by descending number of messages.
C10_ResponseRate ==
    /\ running("author_response_rate") =>
        \A a \in AuthorSet :
            /\ author_messages[a] = Cardinality({k \in 0..(i - 1) : iloc(k).author = a})
            /\ author_responses[a] =
                   Cardinality({k \in 1..(i - 1) :
                       /\ iloc(k).author = a /\ iloc(k - 1).author # a
                       /\ time_diff(k) < 15})
    /\ finished("author_response_rate") =>
        /\ {out[j].author : j \in 1..Len(out)} \subseteq AuthorSet
        /\ Cardinality(AuthorSet) <= 15 => Len(out) = Cardinality(AuthorSet)
        /\ \A j \in 1..Len(out) :
               /\ out[j].total = author_messages[out[j].author]
               /\ out[j].total > 0
               /\ out[j].response_rate =
                      <<author_responses[out[j].author] * 100, out[j].total>>
        /\ \A j \in 1..Len(out), k \in 1..Len(out) :
               j < k => (out[j].author # out[k].author /\ out[j].total >= out[k].total)

\* two authors listed by messages although the second has the higher rate
C10_Witness ==
    /\ finished("author_response_rate")
    /\ Len(out) = 2
    /\ out[1].total > out[2].total
    /\ out[1].response_rate[1] * out[2].response_rate[2]
           < out[2].response_rate[1] * out[1].response_rate[2]

\* the scans that cut the sequence into runs, boundaries or gaps
SegmentationScans ==
    {"conversation_length_analysis", "reply_chain_depth", "monologue_detection",
     "conversation_starters", "silence_periods", "streak_analysis"}

\* what each segmentation scan has collected
NothingCollected ==
    /\ call = "conversation_length_analysis" => bursts = <<>>
    /\ call = "reply_chain_depth" => chain_lengths = <<>>
    /\ call = "monologue_detection" => monologues = <<>>
    /\ call = "conversation_starters" => starters = <<>>
    /\ call = "silence_periods" => gaps = <<>>

\* C11 as stated: over a sequence of exactly one message every segmentation
\* scan, the day streak among them, ends with an empty result (no run, no
\* boundary, no gap, a streak of length 0) and none raises.
C11_SingleEventAllEmpty ==
    (n = 1 /\ call \in SegmentationScans /\ pc = "done") =>
        /\ error = ""
        /\ NothingCollected
        /\ call = "streak_analysis" => out.max_streak = 0

\* C11 amended: over a sequence of exactly one message no segmentation scan
\* enters its loop body or raises; bursts, chains, monologues, starters and
\* silence periods end empty, and the day streak ends with length 1 and the
\* date of the only message as its end date.
C11_SingleEvent ==
    (n = 1 /\ call \in SegmentationScans /\ pc \in {"loop", "done"}) =>
        /\ error = ""
        /\ i = 1
        /\ NothingCollected
        /\ (call = "streak_analysis" /\ pc = "done") =>
               out = [max_streak |-> 1, streak_end |-> iloc(0).date_only]

C11_Witness ==
    /\ n = 1 /\ pc = "done" /\ call = "streak_analysis"
    /\ out.max_streak = 1

\* the columns parse_chat gives the table
ParseColumns ==
    {"date", "time", "author", "message", "datetime", "date_only", "hour",
     "day_of_week", "month", "word_count"}

\* C12: the sequence is never mutated after construction: whatever methods
\* have run, in whatever order, every row of self.df has exactly the columns
\* parse_chat built, with the values parse_chat gave them, in file order.
C12_SequenceNeverMutated ==
    pc \notin {"new", "raised"} =>
        LET built == MatchedRows(file)
        IN  /\ n = Len(built)
            /\ \A k \in 1..n :
                   /\ DOMAIN df[k] = ParseColumns
                   /\ LET row == MakeRow(built[k])
                      IN  \A c \in ParseColumns : df[k][c] = row[c]

\* the positions in the file of the lines that match the line grammar
MatchingPositions == {k \in 1..Len(file) : Parsed[file[k]].ok}

\* the position in the file of the j-th matching line
MatchingPosition(j) ==
    CHOOSE k \in MatchingPositions :
        Cardinality({m \in MatchingPositions : m < k}) = j - 1

\* C13: once built, the sequence holds exactly one event for each line that
\* matches the line grammar, in file order whatever the timestamps are; the
\* j-th event carries the date, time, author and text of the j-th matching
\* line alone, so a line that does not match adds no event and no text.
C13_OneEventPerMatchingLine ==
    pc \notin {"new", "raised"} =>
        /\ n = Cardinality(MatchingPositions)
        /\ \A j \in 1..n :
               LET g == Groups(LineTable[file[MatchingPosition(j)]])
               IN  /\ df[j].date = g.date
                   /\ df[j].time = g.time
                   /\ df[j].author = g.author
                   /\ df[j].message = g.message

C13_Witness ==
    /\ pc = "ready"
    /\ Len(file) = 3 /\ n = 2
    /\ ~Parsed[file[2]].ok /\ file[2] = 22
    /\ df[1].message = <<"h", "i">>

\* the latencies of the transitions into messages 1..upto-1 that reply speed
\* attributes to author a: speaker changes under 60 minutes whose later
\* message is by a
RepliesBy(a, upto) ==
    {k \in 1..(upto - 1) :
        /\ iloc(k).author = a
        /\ iloc(k - 1).author # a
        /\ time_diff(k) < 60}

\* C14: reply speed attributes each speaker-change latency under 60 minutes
\* to the author of the later message, and reports an author's mean exactly
\* when that author has more than 5 such latencies (5 are not enough, 6 are);
\* the reported mean is the sum of the author's latencies over their count.
C14_ReplySpeed ==
    running("reply_speed_by_author") =>
        /\ \A a \in AuthorSet :
               /\ Len(reply_times[a]) = Cardinality(RepliesBy(a, i))
               /\ Sum(reply_times[a]) = Sum([k \in 1..(i - 1) |->
                                               IF k \in RepliesBy(a, i)
                                               THEN time_diff(k) ELSE 0])
        /\ finished("reply_speed_by_author") =>
               \A a \in AuthorSet :
                   /\ (\E k \in 1..Len(out) : out[k][1] = a)
                          <=> Cardinality(RepliesBy(a, n)) > 5
                   /\ \A k \in 1..Len(out) :
                          out[k][1] = a =>
                              /\ out[k][2][2] = Cardinality(RepliesBy(a, n))
                              /\ out[k][2][2] > 0
                              /\ out[k][2][1] = Sum(reply_times[a])

C14_Witness ==
    /\ finished("reply_speed_by_author")
    /\ AuthorSet = {AuthorA, AuthorB}
    /\ Len(reply_times[AuthorA]) = 5
    /\ Len(reply_times[AuthorB]) = 6
    /\ Len(out) = 1 /\ out[1][1] = AuthorB

\* how many latencies of the sample are below m, and how many are not above it
SampleBelow(m) == Cardinality({j \in 1..Len(response_times) : response_times[j] < m})

SampleUpTo(m) == Cardinality({j \in 1..Len(response_times) : response_times[j] <= m})

\* C15: the median reported for a sample of k >= 1 latencies is the element
\* at 0-based rank k \div 2 of the sample in ascending order: it is one of the
\* latencies, at most k \div 2 latencies are below it and at least k \div 2 + 1
\* are not above it (for even k the element after the midpoint, not the mean
\* of the two middle ones); the mean is the sum over k; for an empty sample
\* neither is computed.
C15_MedianRank ==
    finished("response_time_analysis") =>
        LET k == Len(response_times)
        IN  IF k = 0
            THEN out = [average |-> <<>>, median |-> <<>>]
            ELSE /\ \E j \in 1..k : response_times[j] = out.median
                 /\ SampleBelow(out.median) <= k \div 2
                 /\ SampleUpTo(out.median) >= (k \div 2) + 1
                 /\ out.average = <<Sum(response_times), k>>

C15_Witness ==
    /\ finished("response_time_analysis")
    /\ response_times = <<1, 4>>
    /\ out.median = 4

\* the first dates of the runs of len consecutive calendar dates in a set
RunsOfDays(S, len) == {d \in S : \A j \in 0..(len - 1) : d + j \in S}

\* the earliest date of a non-empty set
Earliest(S) == CHOOSE d \in S : \A e \in S : d <= e

\* C16: the end date reported by the streak scan is the last date of the
\* earliest streak of the maximal length: a later streak of the same length
\* does not replace it, and when no two dates are adjacent the result is
\* length 1 with the earliest date as end date.
C16_StreakEnd ==
    finished("streak_analysis") =>
        LET longest == LongestRunOfDays(DateSet)
        IN  /\ streak_end = Earliest(RunsOfDays(DateSet, longest)) + longest - 1
            /\ out.streak_end = streak_end
            /\ longest = 1 => (max_streak = 1 /\ streak_end = Earliest(DateSet))

C16_Witness ==
    /\ finished("streak_analysis")
    /\ DateSet = {StreakDay, StreakDay + 1, StreakDay + 5, StreakDay + 6}
    /\ out = [max_streak |-> 2, streak_end |-> StreakDay + 1]

\* the position at which a scan first produced a key
FirstIndex(xs, key) ==
    CHOOSE k \in 1..Len(xs) : xs[k] = key /\ \A j \in 1..(k - 1) : xs[j] # key

\* how often a scan produced a key
Occurrences(xs, key) == Cardinality({k \in 1..Len(xs) : xs[k] = key})

\* <<count, key>> p goes before q: a higher count, or the same count and
\* first produced earlier
CountedBefore(xs, p, q) ==
    \/ p[1] > q[1]
    \/ p[1] = q[1] /\ FirstIndex(xs, p[2]) < FirstIndex(xs, q[2])

\* result is the top selection of the keys a scan produced: the most frequent
\* keys, each with its count, by descending count, equal counts in the order
\* the keys were first produced
StableTop(xs, result, top) ==
    LET keys == {xs[k] : k \in 1..Len(xs)}
        chosen == {result[a][2] : a \in 1..Len(result)}
    IN  /\ Len(result) = IF Cardinality(keys) < top THEN Cardinality(keys) ELSE top
        /\ chosen \subseteq keys
        /\ \A a \in 1..Len(result) : result[a][1] = Occurrences(xs, result[a][2])
        /\ \A a \in 1..Len(result), b \in 1..Len(result) :
               a < b => CountedBefore(xs, result[a], result[b])
        /\ \A key \in keys \ chosen, a \in 1..Len(result) :
               CountedBefore(xs, result[a], <<Occurrences(xs, key), key>>)

\* the place of entry m after a stable descending sort, given the payload of
\* every entry: after the entries of higher payload and the earlier entries of
\* equal payload
Place(payloads, m) ==
    1 + Cardinality({x \in 1..Len(payloads) :
                        \/ payloads[x] > payloads[m]
                        \/ payloads[x] = payloads[m] /\ x < m})

\* after holds the entries of before, each at its place
StablePlaced(before, after, payloads) ==
    /\ Len(after) = Len(before)
    /\ \A m \in 1..Len(before) : after[Place(payloads, m)] = before[m]

\* the step that ends the loop of a scan and makes its selection
Selecting(name) == pc = "loop" /\ pc' = "done" /\ call = name

\* C17: every top-N selection made after a scan (interaction edges,
\* conversation starters, silence periods, monologues) is by descending
\* payload, and entries of equal payload keep the order in which the scan
\* first produced them, whatever the keys or payloads are.
C17_TopNStable ==
    [][ /\ Selecting("author_interaction_matrix") =>
               StableTop(interactions, out', 15)
        /\ Selecting("conversation_starters") =>
               StableTop(starters, out', 10)
        /\ Selecting("silence_periods") =>
               /\ StablePlaced(gaps, gaps', [k \in 1..Len(gaps) |-> gaps[k].hours[1]])
               /\ out' = Take(gaps', 10)
        /\ Selecting("monologue_detection") =>
               /\ StablePlaced(monologues, monologues',
                               [k \in 1..Len(monologues) |-> monologues[k].count])
               /\ out' = Take(monologues', 10)
      ]_vars

C17_Witness ==
    /\ finished("monologue_detection")
    /\ Len(out) = 2
    /\ out[1].count = out[2].count
    /\ out[1].author = AuthorB /\ out[2].author = AuthorA
    /\ out[1].start_time < out[2].start_time

\* the authors of the messages among 1..upto that follow a gap of more than
\* 4 hours (240 minutes), in order
RECURSIVE StarterSample(_)
StarterSample(upto) ==
    IF upto < 1 THEN <<>>
    ELSE StarterSample(upto - 1) \o
         (IF time_diff(upto) > 240 THEN <<iloc(upto).author>> ELSE <<>>)

\* C18: conversation_starters counts message k >= 1 as a starter, credited to
\* the author of message k, exactly when the gap from message k-1 is more
\* than 4 hours: exactly 4 hours gives no starter, every longer gap gives
\* one, and the reported count of an author is the number of such messages.
C18_Starters ==
    running("conversation_starters") =>
        /\ starters = StarterSample(i - 1)
        /\ Len(starters) = Cardinality({k \in 1..(i - 1) : time_diff(k) > 240})
        /\ (finished("conversation_starters") /\ Cardinality(AuthorSet) <= 10) =>
               \A a \in AuthorSet :
                   CountOf(out, a) =
                       Cardinality({k \in 1..(n - 1) :
                                       time_diff(k) > 240 /\ iloc(k).author = a})

C18_Witness ==
    /\ finished("conversation_starters")
    /\ n = 3 /\ time_diff(1) = 240 /\ time_diff(2) = 241
    /\ iloc(1).author = AuthorA /\ iloc(2).author = AuthorB
    /\ out = << <<1, AuthorB>> >>

\* the silence periods among the gaps before messages 1..upto, in order: one
\* for every gap of more than 1 hour (60 minutes), from the earlier message's
\* timestamp to the later one's, lasting their difference
RECURSIVE SilenceSample(_)
SilenceSample(upto) ==
    IF upto < 1 THEN <<>>
    ELSE SilenceSample(upto - 1) \o
         (IF iloc(upto).datetime - iloc(upto - 1).datetime > 60
          THEN << [start |-> iloc(upto - 1).datetime,
                   end   |-> iloc(upto).datetime,
                   hours |-> <<iloc(upto).datetime - iloc(upto - 1).datetime, 60>>] >>
          ELSE <<>>)

\* how often a record occurs in a list
Copies(xs, x) == Cardinality({k \in 1..Len(xs) : xs[k] = x})

\* C19: silence_periods records one period for every consecutive pair whose
\* gap is more than 1 hour and for no other pair (exactly 1 hour is not
\* recorded); the start of a record is the timestamp of the earlier message,
\* its end that of the later one, its duration end minus start.  The final
\* sort reorders the records and changes none.
C19_SilencePeriods ==
    running("silence_periods") =>
        /\ pc = "loop" => gaps = SilenceSample(i - 1)
        /\ Len(gaps) = Cardinality({k \in 1..(i - 1) : time_diff(k) > 60})
        /\ \A j \in 1..Len(gaps) :
               /\ gaps[j].hours = <<gaps[j].end - gaps[j].start, 60>>
               /\ Copies(gaps, gaps[j]) = Copies(SilenceSample(i - 1), gaps[j])

C19_Witness ==
    /\ finished("silence_periods")
    /\ n = 3 /\ time_diff(1) = 60 /\ time_diff(2) = 180
    /\ out = << [start |-> iloc(1).datetime, end |-> iloc(2).datetime,
                 hours |-> <<180, 60>>] >>

\* the last message among 1..upto that is 2 minutes or more after the message
\* before it, 0 (the first message) when there is none
LastChainBreak(upto) ==
    LET breaks == {0} \cup {k \in 1..upto : time_diff(k) >= 2}
    IN  CHOOSE b \in breaks : \A c \in breaks : c <= b

\* the lengths of the chains closed by the breaks among 1..upto, in order
RECURSIVE ClosedChainLengths(_)
ClosedChainLengths(upto) ==
    IF upto < 1 THEN <<>>
    ELSE ClosedChainLengths(upto - 1) \o
         (IF time_diff(upto) >= 2
          THEN <<upto - LastChainBreak(upto - 1)>> ELSE <<>>)

\* C20: in the reply chain scan two consecutive messages are in the same
\* chain exactly when their gap is less than 2 minutes (exactly 2 minutes
\* breaks the chain), and a chain closed by a break is recorded exactly when
\* it has more than 2 messages: one of 2 never is, one of 3 is.
C20_ReplyChains ==
    running("reply_chain_depth") =>
        /\ current_chain = i - LastChainBreak(i - 1)
        /\ chain_lengths = SelectSeq(ClosedChainLengths(i - 1), LAMBDA len : len > 2)
        /\ \A j \in 1..Len(chain_lengths) : chain_lengths[j] >= 3

C20_Witness ==
    /\ finished("reply_chain_depth")
    /\ n = 6
    /\ time_diff(3) = 2 /\ time_diff(5) = 2
    /\ ClosedChainLengths(n - 1) = <<3, 2>>
    /\ chain_lengths = <<3>>

\* C21: at every step of the run scans every entry already recorded meets
\* its minimum length: a recorded burst has at least 2 messages (a single
\* isolated message is never a burst), a recorded chain at least 3, a
\* recorded monologue at least 5; when no run candidate, closed or in
\* progress, meets the minimum, the list is empty.
C21_RecordedMeetMinimum ==
    /\ running("conversation_length_analysis") =>
           /\ \A j \in 1..Len(bursts) : bursts[j] >= 2
           /\ ((\A j \in 1..Len(runs) : runs[j] < 2) /\ current_burst < 2)
                  => bursts = <<>>
    /\ running("reply_chain_depth") =>
           /\ \A j \in 1..Len(chain_lengths) : chain_lengths[j] > 2
           /\ ((\A j \in 1..Len(runs) : runs[j] < 3) /\ current_chain < 3)
                  => chain_lengths = <<>>
    /\ running("monologue_detection") =>
           /\ \A j \in 1..Len(monologues) : monologues[j].count >= 5
           /\ ((\A j \in 1..Len(runs) : runs[j] < 5) /\ current_count < 5)
                  => monologues = <<>>

C21_Witness ==
    /\ finished("conversation_length_analysis")
    /\ n = 4
    /\ runs = <<1, 2>>
    /\ bursts = <<2>>

\* the messages among 1..upto that reply within a window: the author differs
\* from the author of the message before and the latency is under limit
Replies(limit, upto) ==
    {k \in 1..upto : iloc(k).author # iloc(k - 1).author /\ time_diff(k) < limit}

\* the responses author_response_rate has credited, over all authors
TotalResponses == Sum([k \in 1..Len(authors) |-> author_responses[authors[k]]])

\* the latencies reply_speed_by_author has collected, over all authors
TotalReplyTimes == Sum([k \in 1..Len(authors) |-> Len(reply_times[authors[k]])])

\* C22: the reply windows are nested over the same sequence.  At every step
\* who_talks_to_whom has recorded exactly the replies under 5 minutes,
\* author_interaction_matrix those under 10, author_response_rate has
\* credited those under 15, and response_time_analysis and
\* reply_speed_by_author have sampled those under 60; each of these sets of
\* messages contains the one before, so quick pairs <= edges <= responses
\* credited <= size of the response-time sample.
C22_NestedWindows ==
    /\ /\ Replies(5, n - 1) \subseteq Replies(10, n - 1)
       /\ Replies(10, n - 1) \subseteq Replies(15, n - 1)
       /\ Replies(15, n - 1) \subseteq Replies(60, n - 1)
    /\ running("who_talks_to_whom") =>
           /\ Len(reply_pairs) = Cardinality(Replies(5, i - 1))
           /\ \A a \in AuthorSet, b \in AuthorSet :
                  Occurrences(reply_pairs, <<a, b>>) = Transitions(a, b, 5, i - 1)
           /\ Len(reply_pairs) <= Cardinality(Replies(10, i - 1))
    /\ running("author_interaction_matrix") =>
           /\ Len(interactions) = Cardinality(Replies(10, i - 1))
           /\ Cardinality(Replies(5, i - 1)) <= Len(interactions)
           /\ Len(interactions) <= Cardinality(Replies(15, i - 1))
    /\ running("author_response_rate") =>
           /\ TotalResponses = Cardinality(Replies(15, i - 1))
           /\ Cardinality(Replies(10, i - 1)) <= TotalResponses
           /\ TotalResponses <= Cardinality(Replies(60, i - 1))
    /\ running("response_time_analysis") =>
           /\ Len(response_times) = Cardinality(Replies(60, i - 1))
           /\ Cardinality(Replies(15, i - 1)) <= Len(response_times)
    /\ running("reply_speed_by_author") =>
           /\ TotalReplyTimes = Cardinality(Replies(60, i - 1))
           /\ Cardinality(Replies(15, i - 1)) <= TotalReplyTimes

C22_Witness ==
    /\ finished("who_talks_to_whom")
    /\ Len(reply_pairs) = 1
    /\ Cardinality(Replies(5, n - 1)) = 1
    /\ Cardinality(Replies(10, n - 1)) = 2
    /\ Cardinality(Replies(15, n - 1)) = 3
    /\ Cardinality(Replies(60, n - 1)) = 4

\* the messages author_response_rate has counted, over all authors
TotalMessages == Sum([k \in 1..Len(authors) |-> author_messages[authors[k]]])

\* C23: at every step of the author_response_rate scan every author has
\* 0 <= responses <= messages, the messages counted over all authors are the
\* messages processed so far, and the first message is never credited as a
\* response (after it nothing is credited, later at most one response per
\* further message); so every reported rate lies between 0% and 100%.
C23_ResponseRateBounds ==
    running("author_response_rate") =>
        /\ \A a \in AuthorSet :
               /\ 0 <= author_responses[a]
               /\ author_responses[a] <= author_messages[a]
        /\ TotalMessages = i
        /\ i <= 1 => TotalResponses = 0
        /\ i >= 1 => TotalResponses <= i - 1
        /\ i >= 1 => author_responses[iloc(0).author] < author_messages[iloc(0).author]
        /\ pc = "done" =>
               \A j \in 1..Len(out) :
                   /\ out[j].response_rate[2] > 0
                   /\ 0 <= out[j].response_rate[1]
                   /\ out[j].response_rate[1] <= 100 * out[j].response_rate[2]

C23_Witness ==
    /\ finished("author_response_rate")
    /\ n = 3
    /\ author_messages[AuthorA] = 2 /\ author_responses[AuthorA] = 1
    /\ author_messages[AuthorB] = 1 /\ author_responses[AuthorB] = 1

\* the scan has just processed the pair (k - 1, k) and message k has an
\* earlier timestamp than message k - 1
JustScannedBackwards(name, k) ==
    running(name) /\ k = i - 1 /\ k >= 1 /\ time_diff(k) < 0

\* C24: when message k has an earlier timestamp than message k-1, no scan
\* rejects, reorders or skips the pair: it extends the current burst and the
\* current reply chain and, when the authors differ, its negative latency is
\* kept as a response-time sample, recorded as an interaction edge and
\* credited as a response; it gives no silence period and no conversation
\* starter.
C24_BackwardsPair ==
    \A k \in 1..(n - 1) :
        /\ JustScannedBackwards("conversation_length_analysis", k) =>
               current_burst >= 2 /\ Sum(runs) < k
        /\ JustScannedBackwards("reply_chain_depth", k) =>
               current_chain >= 2 /\ Sum(runs) < k
        /\ (JustScannedBackwards("response_time_analysis", k) /\ speaker_changed(k)) =>
               /\ response_times # <<>>
               /\ response_times[Len(response_times)] = time_diff(k)
               /\ response_times[Len(response_times)] < 0
        /\ (JustScannedBackwards("author_interaction_matrix", k) /\ speaker_changed(k)) =>
               /\ interactions # <<>>
               /\ interactions[Len(interactions)] = <<iloc(k - 1).author, iloc(k).author>>
        /\ (JustScannedBackwards("author_response_rate", k) /\ speaker_changed(k)) =>
               author_responses[iloc(k).author] =
                   1 + Cardinality({j \in 1..(k - 1) :
                           /\ iloc(j).author = iloc(k).author
                           /\ iloc(j - 1).author # iloc(k).author
                           /\ time_diff(j) < 15})
        /\ JustScannedBackwards("silence_periods", k) =>
               /\ Len(gaps) = Cardinality({j \in 1..(k - 1) : time_diff(j) > 60})
               /\ \A j \in 1..Len(gaps) : gaps[j].hours[1] > 60
        /\ JustScannedBackwards("conversation_starters", k) =>
               Len(starters) = Cardinality({j \in 1..(k - 1) : time_diff(j) > 240})
        /\ time_diff(k) < 0 =>
               /\ error = "" /\ pc # "raised"
               /\ iloc(k).datetime < iloc(k - 1).datetime

C24_Witness ==
    /\ finished("response_time_analysis")
    /\ n = 2
    /\ time_diff(1) < 0
    /\ response_times = <<time_diff(1)>>

====
